---- MODULE Spec2Model ----
(***************************************************************************)
(* Model of build_modrepo.py: the version key (parse_version), the         *)
(* descriptor parser (ModMetadata) and the catalog build (main).           *)
(*                                                                         *)
(* Text is modelled as a sequence of one-character strings, so that        *)
(* strip, split, casefold, endswith and the ordinal comparison of Python   *)
(* strings are computed and not assumed.                                   *)
(***************************************************************************)
EXTENDS Integers, Sequences, FiniteSets, TLC

\* ------------------------------------------------------------------ bounds
\* longest enumerated version string
MaxLen == 1
\* longest release listing
MaxReleases == 2
\* number of runs of main() in one behaviour
MaxRuns == 2

\* ------------------------------------------------------------ characters
\* The modelled characters in code-point order.
Chars ==
  << " ", "-", ".", "/",
     "0", "1", "2", "3", "4", "5", "6", "7", "8", "9",
     "A", "B", "C", "D", "E", "F", "G", "H", "I", "J", "K", "L", "M",
     "N", "O", "P", "Q", "R", "S", "T", "U", "V", "W", "X", "Y", "Z",
     "a", "b", "c", "d", "e", "f", "g", "h", "i", "j", "k", "l", "m",
     "n", "o", "p", "q", "r", "s", "t", "u", "v", "w", "x", "y", "z" >>

CharSet == { Chars[i] : i \in 1..Len(Chars) }

\* ordinal of a character (order-isomorphic to its code point)
Ord == [ c \in CharSet |-> CHOOSE i \in 1..Len(Chars) : Chars[i] = c ]

Digits == { "0", "1", "2", "3", "4", "5", "6", "7", "8", "9" }

DigitVal == [ c \in Digits |-> Ord[c] - Ord["0"] ]

IsUpper(c) == Ord[c] >= Ord["A"] /\ Ord[c] <= Ord["Z"]

\* str.isspace for the modelled characters
IsSpace(c) == c = " "

\* one character of str.casefold / str.lower (ASCII)
FoldChar(c) == IF IsUpper(c) THEN Chars[Ord[c] + 26] ELSE c

\* str.lower()
Lower(s) == [ i \in 1..Len(s) |-> FoldChar(s[i]) ]

\* str.endswith(t)
EndsWith(s, t) ==
  /\ Len(s) >= Len(t)
  /\ SubSeq(s, Len(s) - Len(t) + 1, Len(s)) = t

\* str.strip(): drop leading and trailing whitespace
Strip(s) ==
  LET keep == { i \in 1..Len(s) : ~IsSpace(s[i]) }
  IN  IF keep = {} THEN << >>
      ELSE LET lo == CHOOSE i \in keep : \A j \in keep : i <= j
               hi == CHOOSE i \in keep : \A j \in keep : j <= i
           IN  SubSeq(s, lo, hi)

\* str.split(sep) for a one-character separator: "" gives [""]
RECURSIVE Split(_, _)
Split(s, sep) ==
  LET hits == { i \in 1..Len(s) : s[i] = sep }
  IN  IF hits = {} THEN << s >>
      ELSE LET k == CHOOSE i \in hits : \A j \in hits : i <= j
           IN  << SubSeq(s, 1, k - 1) >> \o Split(SubSeq(s, k + 1, Len(s)), sep)

\* int(num_s) for a run of decimal digits
RECURSIVE ToInt(_)
ToInt(d) ==
  IF d = << >> THEN 0
  ELSE 10 * ToInt(SubSeq(d, 1, Len(d) - 1)) + DigitVal[d[Len(d)]]

\* ------------------------------------------------- Python's comparisons
\* str < str: ordinal comparison, a proper prefix sorts first
StrLess(x, y) ==
  LET n == IF Len(x) < Len(y) THEN Len(x) ELSE Len(y)
      d == { i \in 1..n : x[i] # y[i] }
  IN  IF d = {} THEN Len(x) < Len(y)
      ELSE LET k == CHOOSE i \in d : \A j \in d : i <= j
           IN  Ord[x[k]] < Ord[y[k]]

\* (prefix, number, suffix) < (prefix, number, suffix)
PartLess(p, q) ==
  IF p[1] # q[1] THEN StrLess(p[1], q[1])
  ELSE IF p[2] # q[2] THEN p[2] < q[2]
  ELSE StrLess(p[3], q[3])

\* list < list for two sections (lists of parts)
SectionLess(x, y) ==
  LET n == IF Len(x) < Len(y) THEN Len(x) ELSE Len(y)
      d == { i \in 1..n : x[i] # y[i] }
  IN  IF d = {} THEN Len(x) < Len(y)
      ELSE LET k == CHOOSE i \in d : \A j \in d : i <= j
           IN  PartLess(x[k], y[k])

\* list < list for two keys (lists of sections): the ordering of the keys
\* parse_version returns
KeyLess(x, y) ==
  LET n == IF Len(x) < Len(y) THEN Len(x) ELSE Len(y)
      d == { i \in 1..n : x[i] # y[i] }
  IN  IF d = {} THEN Len(x) < Len(y)
      ELSE LET k == CHOOSE i \in d : \A j \in d : i <= j
           IN  SectionLess(x[k], y[k])

\* --------------------------------------------------------- parse_version
cmp_key_str(x) == Lower(x)

\* length of the maximal leading run of digits
LeadDigits(part) ==
  LET stop == { i \in 1..Len(part) : part[i] \notin Digits }
  IN  IF stop = {} THEN Len(part)
      ELSE (CHOOSE i \in stop : \A j \in stop : i <= j) - 1

\* length of the maximal trailing run of digits
TrailDigits(part) ==
  LET stop == { i \in 1..Len(part) : part[i] \notin Digits }
  IN  IF stop = {} THEN Len(part)
      ELSE Len(part) - (CHOOSE i \in stop : \A j \in stop : j <= i)

\* faulty variant: the non-digit prefix of a part is dropped
parse_part_noprefix(part) ==
  IF part = << >> THEN << << >>, 0, << >> >>
  ELSE IF part[1] \in Digits
       THEN LET n == LeadDigits(part)
            IN  << << >>, ToInt(SubSeq(part, 1, n)),
                   cmp_key_str(SubSeq(part, n + 1, Len(part))) >>
       ELSE LET n == TrailDigits(part)
            IN  << << >>, ToInt(SubSeq(part, Len(part) - n + 1, Len(part))), << >> >>

parse_part(part) ==
  IF part = << >> THEN << << >>, 0, << >> >>
  ELSE IF part[1] \in Digits
       THEN LET n == LeadDigits(part)
            IN  << << >>, ToInt(SubSeq(part, 1, n)),
                   cmp_key_str(SubSeq(part, n + 1, Len(part))) >>
       ELSE LET n == TrailDigits(part)
            IN  << cmp_key_str(SubSeq(part, 1, Len(part) - n)),
                   ToInt(SubSeq(part, Len(part) - n + 1, Len(part))), << >> >>

\* the sections of a stripped, non-empty, un-prefixed string
Sections(s) ==
  LET secs == Split(s, ".")
  IN  [ i \in 1..Len(secs) |->
          LET ps == Split(secs[i], "-")
          IN  [ j \in 1..Len(ps) |-> parse_part(ps[j]) ] ]

\* faulty variant: no guard for the empty string, s[0] raises IndexError
parse_version_noguard(raw) ==
  LET s == Strip(raw)
  IN  IF s = << >> THEN [ err |-> "IndexError", key |-> << >> ]
      ELSE [ err |-> "",
             key |-> Sections(IF s[1] \in { "v", "V" }
                              THEN SubSeq(s, 2, Len(s)) ELSE s) ]

\* parse_version: err names the exception raised ("" for a normal return)
parse_version(raw) ==
  LET s == Strip(raw)
  IN  IF s = << >> THEN [ err |-> "", key |-> << << << << >>, 0, << >> >> >> >> ]
      ELSE [ err |-> "",
             key |-> Sections(IF s[1] \in { "v", "V" }
                              THEN SubSeq(s, 2, Len(s)) ELSE s) ]

\* ------------------------------------------------------------ ModMetadata
\* element.findtext(name): the text of the first child called name, None
\* (found = FALSE) without such a child; a child without text gives "".
findtext(elem, name) ==
  IF elem[name] = << >> THEN [ found |-> FALSE, text |-> << >> ]
  ELSE [ found |-> TRUE, text |-> elem[name][1] ]

\* get_field of from_about_xml
get_field(elem, name) ==
  LET el == findtext(elem, name)
  IN  IF ~el.found THEN [ err |-> "ValueError", text |-> << >> ]
      ELSE [ err |-> "", text |-> Strip(el.text) ]

NonEmpty(seq) == SelectSeq(seq, LAMBDA t : t # << >>)

\* faulty variant: the first declared branch is kept
read_data_first(elem) ==
  [ tag |-> IF elem.TagsChildren > 0
            THEN NonEmpty([ i \in 1..Len(elem.Tag) |-> Strip(elem.Tag[i]) ])
            ELSE << >>,
    depends_on |-> NonEmpty([ i \in 1..Len(elem.DependsOn) |->
                     Strip(IF elem.DependsOn[i].ModID # << >>
                           THEN elem.DependsOn[i].ModID
                           ELSE elem.DependsOn[i].WorkshopHandle) ]),
    branch |-> Strip(IF elem.Branch = << >> THEN << >> ELSE elem.Branch[1]) ]

\* ModMetadata.read_data: tag, depends_on and the last declared branch
read_data(elem) ==
  [ tag |-> IF elem.TagsChildren > 0
            THEN NonEmpty([ i \in 1..Len(elem.Tag) |-> Strip(elem.Tag[i]) ])
            ELSE << >>,
    depends_on |-> NonEmpty([ i \in 1..Len(elem.DependsOn) |->
                     Strip(IF elem.DependsOn[i].ModID # << >>
                           THEN elem.DependsOn[i].ModID
                           ELSE elem.DependsOn[i].WorkshopHandle) ]),
    branch |-> Strip(IF elem.Branch = << >> THEN << >>
                     ELSE elem.Branch[Len(elem.Branch)]) ]

\* a ModMetadata object; version_parsed is set by the version setter
ModMetadata(id, version, name, author, url, digest, data) ==
  [ id |-> id, version |-> version, version_parsed |-> parse_version(version).key,
    name |-> name, author |-> author, url |-> url, digest |-> digest,
    tag |-> data.tag, depends_on |-> data.depends_on, branch |-> data.branch ]

NoMod == [ id |-> << >> ]

\* ModMetadata.from_about_xml on the descriptor text; url and digest are
\* attached by the caller
from_about_xml(about) ==
  LET id      == get_field(about, "ModID")
      version == get_field(about, "Version")
      name    == get_field(about, "Name")
      author  == get_field(about, "Author")
  IN  IF about.xml # "ok" THEN [ err |-> "ParseError", mm |-> NoMod ]
      ELSE IF id.err # "" THEN [ err |-> id.err, mm |-> NoMod ]
      ELSE IF version.err # "" THEN [ err |-> version.err, mm |-> NoMod ]
      ELSE IF parse_version(version.text).err # ""
           THEN [ err |-> parse_version(version.text).err, mm |-> NoMod ]
      ELSE IF name.err # "" THEN [ err |-> name.err, mm |-> NoMod ]
      ELSE IF author.err # "" THEN [ err |-> author.err, mm |-> NoMod ]
      ELSE [ err |-> "",
             mm  |-> ModMetadata(id.text, version.text, name.text, author.text,
                                 "", "", read_data(about)) ]

\* the children read_data sees under a ModVersion element of the catalog:
\* no Tags, no DependsOn, and Branch children that carry no text
ModVersionChildren(mv) ==
  [ TagsChildren |-> 0, Tag |-> << >>, DependsOn |-> << >>,
    Branch |-> [ i \in 1..Len(mv.Branch) |-> << >> ] ]

\* ModMetadata.from_modrepo
from_modrepo(mv) ==
  ModMetadata(mv.ModID, mv.Version, mv.Name, mv.Author, mv.Url, mv.Digest,
              read_data(ModVersionChildren(mv)))

\* read_existing_modrepo: the records of the persisted catalog
read_existing_modrepo(file) ==
  IF ~file.exists THEN << >>
  ELSE [ i \in 1..Len(file.mods) |-> from_modrepo(file.mods[i]) ]

\* -------------------------------------------------------------- archives
AboutPath ==
  << "A", "b", "o", "u", "t", "/", "A", "b", "o", "u", "t", ".", "x", "m", "l" >>

NoAbout == [ xml |-> "none" ]

\* read_about_xml_from_zip: err for a file that is no zip container,
\* found = FALSE for None
read_about_xml_from_zip(archive) ==
  LET cand  == SelectSeq(archive.entries, LAMBDA e : EndsWith(e.path, AboutPath))
      exact == SelectSeq(cand, LAMBDA e : e.path = AboutPath)
  IN  IF ~archive.zip THEN [ err |-> "BadZipFile", found |-> FALSE, about |-> NoAbout ]
      ELSE IF cand = << >> THEN [ err |-> "", found |-> FALSE, about |-> NoAbout ]
      ELSE [ err |-> "", found |-> TRUE,
             about |-> IF exact # << >> THEN exact[1].about ELSE cand[1].about ]

\* sha256 of the downloaded file: a function of its bytes
sha256(archive) == archive.sha

\* faulty variant: every asset name passes for an archive
IsZip_any(name) == TRUE

\* name.lower().endswith(".zip")
IsZip(name) == EndsWith(Lower(name), << ".", "z", "i", "p" >>)

\* has_zip of a release
has_zip(rel) == \E i \in 1..Len(rel.assets) : IsZip(rel.assets[i].name)

\* ------------------------------------------------------------ the catalog
\* faulty variant: the version is compared as the raw string
SortLess_raw(a, b) ==
  IF a.id # b.id THEN StrLess(a.id, b.id)
  ELSE IF a.version # b.version THEN StrLess(a.version, b.version)
  ELSE StrLess(a.branch, b.branch)

\* key(a) < key(b) for the sort key (t.id, t.version_parsed, t.branch)
SortLess(a, b) ==
  IF a.id # b.id THEN StrLess(a.id, b.id)
  ELSE IF a.version_parsed # b.version_parsed
       THEN KeyLess(a.version_parsed, b.version_parsed)
  ELSE StrLess(a.branch, b.branch)

\* place x behind every element that does not sort after it
Insert(sorted, x) ==
  LET after == { i \in 1..Len(sorted) : SortLess(x, sorted[i]) }
      k == IF after = {} THEN Len(sorted) + 1
           ELSE CHOOSE i \in after : \A j \in after : i <= j
  IN  SubSeq(sorted, 1, k - 1) \o << x >> \o SubSeq(sorted, k, Len(sorted))

\* entries.sort(key=...): a stable sort
RECURSIVE Sort(_)
Sort(es) ==
  IF es = << >> THEN << >>
  ELSE Insert(Sort(SubSeq(es, 1, Len(es) - 1)), es[Len(es)])

\* the ModVersion element written for one record
ModVersion(mm) ==
  [ ModID |-> mm.id, Version |-> mm.version, Name |-> mm.name,
    Author |-> mm.author, Url |-> mm.url, Digest |-> mm.digest,
    Branch |-> << [ Value |-> mm.branch ] >> ]

\* the ModRepo document written for the sorted records
ModRepo(es) == [ i \in 1..Len(es) |-> ModVersion(es[i]) ]

\* ------------------------------------------------- the enumerated inputs
foo == << "f", "o", "o" >>
bar == << "b", "a", "r" >>
Zip == << ".", "z", "i", "p" >>
V1_10_0 == << "1", ".", "1", "0", ".", "0" >>
V1_9_0  == << "1", ".", "9", ".", "0" >>
Vv1_9_0 == << "v", "1", ".", "9", ".", "0" >>
V1_0_0  == << "1", ".", "0", ".", "0" >>
V1_0_0_alpha == << "1", ".", "0", ".", "0", "-", "a", "l", "p", "h", "a" >>
V1_0_0_beta  == << "1", ".", "0", ".", "0", "-", "b", "e", "t", "a" >>

\* a well-formed About.xml: each field lists the texts of the elements of
\* that name, in document order
About(ids, versions, names, authors, branches) ==
  [ xml |-> "ok", ModID |-> ids, Version |-> versions, Name |-> names,
    Author |-> authors, TagsChildren |-> 1, Tag |-> << << "t" >>, << " " >> >>,
    DependsOn |-> << [ ModID |-> << >>, WorkshopHandle |-> << " ", "w" >> ] >>,
    Branch |-> branches ]

Readme == [ path |-> << "r", "e", "a", "d", "m", "e" >>, about |-> NoAbout ]

\* what each fetch URL serves
Hosted ==
  [ u \in { "u/a", "u/b", "u/c", "u/e", "u/f", "u/g", "u/g2", "u/h", "u/i",
            "u/j", "u/k" } |->
    CASE u = "u/a" ->
           [ zip |-> TRUE, sha |-> "sha-a",
             entries |-> << [ path |-> << "X", "/" >> \o AboutPath,
                              about |-> About(<< bar >>, << V1_0_0 >>, << bar >>,
                                              << bar >>, << >>) ],
                            [ path |-> AboutPath,
                              about |-> About(<< foo >>, << V1_10_0 >>, << << "F" >> >>,
                                              << << "B" >> >>, << >>) ] >> ]
      [] u = "u/b" ->
           [ zip |-> TRUE, sha |-> "sha-b",
             entries |-> << Readme,
                            [ path |-> << "M", "/" >> \o AboutPath,
                              about |-> About(<< foo >>, << << " " >> \o V1_9_0 >>,
                                              << << "F" >> >>, << << "B" >> >>,
                                              << << "d", "e", "v" >>,
                                                 << " ", "m", "a", "i", "n" >> >>) ] >> ]
      [] u = "u/c" ->
           [ zip |-> TRUE, sha |-> "sha-c",
             entries |-> << [ path |-> AboutPath,
                              about |-> About(<< bar >>, << V1_0_0 >>, << bar >>,
                                              << bar >>, << >>) ] >> ]
      [] u = "u/e" ->
           [ zip |-> TRUE, sha |-> "sha-e",
             entries |-> << [ path |-> AboutPath,
                              about |-> About(<< foo >>, << V1_0_0 >>, << foo >>,
                                              << >>, << >>) ] >> ]
      [] u = "u/f" ->
           [ zip |-> TRUE, sha |-> "sha-f",
             entries |-> << [ path |-> AboutPath,
                              about |-> About(<< foo >>, << Vv1_9_0 >>, << << "G" >> >>,
                                              << << "B" >> >>,
                                              << << "m", "a", "i", "n" >> >>) ] >> ]
      [] u = "u/g" ->
           [ zip |-> TRUE, sha |-> "sha-g", entries |-> << Readme >> ]
      [] u = "u/g2" ->
           [ zip |-> TRUE, sha |-> "sha-g2",
             entries |-> << [ path |-> AboutPath, about |-> [ xml |-> "empty" ] ] >> ]
      [] u = "u/h" ->
           [ zip |-> TRUE, sha |-> "sha-h",
             entries |-> << [ path |-> AboutPath,
                              about |-> About(<< << " " >> >>, << V1_0_0 >>, << bar >>,
                                              << bar >>, << >>) ] >> ]
      [] u = "u/i" ->
           [ zip |-> TRUE, sha |-> "sha-i",
             entries |-> << [ path |-> AboutPath, about |-> [ xml |-> "malformed" ] ] >> ]
      [] u = "u/j" ->
           [ zip |-> FALSE, sha |-> "sha-j", entries |-> << >> ]
      [] u = "u/k" ->
           [ zip |-> TRUE, sha |-> "sha-k",
             entries |-> << [ path |-> AboutPath,
                              about |-> About(<< bar >>, << << "2" >> >>, << bar >>,
                                              << bar >>, << >>) ] >> ] ]

Asset(name, url) == [ name |-> name, browser_download_url |-> url ]

\* the releases a listing is drawn from
Published ==
  << [ tag_name |-> "v1",
       assets |-> << Asset(<< "a" >> \o Zip, "u/a"), Asset(<< "f" >> \o Zip, "u/f") >> ],
     [ tag_name |-> "v2",
       assets |-> << Asset(<< "b", ".", "Z", "I", "P" >>, "u/b"),
                     Asset(<< "c", ".", "t", "x", "t" >>, "u/c"),
                     Asset(<< "d" >> \o Zip, "") >> ],
     [ tag_name |-> "v3",
       assets |-> << Asset(<< "g" >> \o Zip, "u/g"), Asset(<< "g", "2" >> \o Zip, "u/g2"),
                     Asset(<< "h" >> \o Zip, "u/h") >> ],
     [ tag_name |-> "v4",
       assets |-> << Asset(<< "e" >> \o Zip, "u/e"), Asset(<< "k" >> \o Zip, "u/k") >> ],
     [ tag_name |-> "v5",
       assets |-> << Asset(<< "r", ".", "t", "x", "t" >>, "u/c") >> ],
     [ tag_name |-> "v6", assets |-> << Asset(<< "i" >> \o Zip, "u/i") >> ],
     [ tag_name |-> "v7", assets |-> << Asset(<< "j" >> \o Zip, "u/j") >> ] >>

\* the release listings: up to MaxReleases different releases, in any order
Listings ==
  { [ i \in 1..Len(ix) |-> Published[ix[i]] ] :
      ix \in { s \in UNION { [ 1..n -> 1..Len(Published) ] : n \in 0..MaxReleases } :
                 \A i, j \in 1..Len(s) : i # j => s[i] # s[j] } }

\* the enumerated version strings
Alphabet == { "1", "a", ".", "-" }

Samples ==
  { << >>, << " " >>, << "v" >>, << "V", "1" >>, << " ", "1", "A", " " >>,
    << "-", "." >>, << "a", "1" >>, << "1", "a" >>, << "a", "-", "1" >>,
    << "1", ".", ".", "0" >>, << "0", "1" >>,
    V1_0_0, V1_0_0_alpha, V1_0_0_beta, V1_9_0, Vv1_9_0, V1_10_0 }

VersionInputs == UNION { [ 1..n -> Alphabet ] : n \in 0..MaxLen } \cup Samples

\* ------------------------------------------------------------------ state
VARIABLES
  modrepo,       \* the file modrepo.xml: exists, and its ModVersion elements
  pc,            \* where main() is: idle, releases, assets, done, failed
  run,           \* number of runs of main() started
  old_releases,  \* what read_existing_modrepo returned to this run
  releases,      \* the release listing of this run
  ri,            \* position of the loop over releases
  ai,            \* position of the loop over the assets of releases[ri]
  entries,       \* the records accumulated by this run
  exc,           \* the exception that ended this run, "" if none
  fetched,       \* the URLs this run has requested
  writes,        \* how often this run has written modrepo.xml
  ref,           \* history: listing and catalog of the last completed run
  va, vb, vc,    \* raw version strings
  ka, kb, kc,    \* what parse_version returned for them
  vpc            \* input, parsed (off in the catalog specification)

vars == << modrepo, pc, run, old_releases, releases, ri, ai, entries, exc,
           fetched, writes, ref, va, vb, vc, ka, kb, kc, vpc >>

mainVars == << modrepo, pc, run, old_releases, releases, ri, ai, entries, exc,
               fetched, writes, ref >>

versionVars == << va, vb, vc, ka, kb, kc, vpc >>

NoKey == [ err |-> "", key |-> << >> ]

NoRef == [ set |-> FALSE, releases |-> << >>, mods |-> << >> ]

\* before the first run: no modrepo.xml
InitMain ==
  /\ modrepo = [ exists |-> FALSE, mods |-> << >> ]
  /\ pc = "idle"
  /\ run = 0
  /\ old_releases = << >>
  /\ releases = << >>
  /\ ri = 0
  /\ ai = 0
  /\ entries = << >>
  /\ exc = ""
  /\ fetched = {}
  /\ writes = 0
  /\ ref = NoRef

Init ==
  /\ InitMain
  /\ va = << >> /\ vb = << >> /\ vc = << >>
  /\ ka = NoKey /\ kb = NoKey /\ kc = NoKey
  /\ vpc = "off"

\* ----------------------------------------------------------------- main()
\* faulty variant: the records of the previous catalog are carried over
StartEntries_carry(old) == old

\* entries: list[ModMetadata] = []
StartEntries(old) == << >>

\* old_releases_by_tag: a dict keyed by mr.tag for the records with a
\* non-empty tag; tag is a list, so any such record raises TypeError
old_releases_by_tag(old) ==
  [ err |-> IF \E i \in 1..Len(old) : old[i].tag # << >> THEN "TypeError" ELSE "" ]

\* main() up to the loop: read_existing_modrepo, get_release_data
StartRun ==
  /\ pc = "idle"
  /\ run < MaxRuns
  /\ run' = run + 1
  /\ old_releases' = read_existing_modrepo(modrepo)
  /\ old_releases_by_tag(old_releases').err = ""
  /\ \E listing \in Listings : releases' = listing
  /\ entries' = StartEntries(old_releases')
  /\ ri' = 1
  /\ pc' = "releases"
  /\ UNCHANGED << modrepo, ai, exc, fetched, writes, ref, versionVars >>

\* main() ends with an exception before the loop: the git call of
\* read_existing_modrepo or the gh call of get_release_data fails (or the
\* dict of old releases cannot be built)
ListingFails ==
  /\ pc = "idle"
  /\ run < MaxRuns
  /\ run' = run + 1
  /\ old_releases' = read_existing_modrepo(modrepo)
  /\ pc' = "failed"
  /\ exc' = IF old_releases_by_tag(old_releases').err # ""
            THEN old_releases_by_tag(old_releases').err
            ELSE "CalledProcessError"
  /\ UNCHANGED << modrepo, releases, ri, ai, entries, fetched, writes, ref,
                  versionVars >>

\* the process ends: what the run held in memory is gone, modrepo.xml stays.
\* History: the listing and the catalog of the last completed run.
EndRun ==
  /\ pc \in { "done", "failed" }
  /\ pc' = "idle"
  /\ ref' = IF pc = "done"
            THEN [ set |-> TRUE, releases |-> releases, mods |-> modrepo.mods ]
            ELSE ref
  /\ old_releases' = << >>
  /\ releases' = << >>
  /\ ri' = 0
  /\ ai' = 0
  /\ entries' = << >>
  /\ exc' = ""
  /\ fetched' = {}
  /\ writes' = 0
  /\ UNCHANGED << modrepo, run, versionVars >>

\* faulty variant: an exception in the loop still writes what was collected
Raise_flush(e) ==
  /\ pc' = "failed"
  /\ exc' = e
  /\ modrepo' = [ exists |-> TRUE, mods |-> ModRepo(Sort(entries)) ]
  /\ writes' = writes + 1
  /\ UNCHANGED << run, old_releases, releases, ri, ai, entries, ref, versionVars >>

\* an exception raised in the asset loop is caught nowhere: it leaves main()
\* before the catalog is written
Raise(e) ==
  /\ pc' = "failed"
  /\ exc' = e
  /\ UNCHANGED << modrepo, writes, run, old_releases, releases, ri, ai, entries,
                  ref, versionVars >>

\* a release without a zip asset is skipped
SkipRelease ==
  /\ pc = "releases"
  /\ ri <= Len(releases)
  /\ ~has_zip(releases[ri])
  /\ ri' = ri + 1
  /\ UNCHANGED << modrepo, pc, run, old_releases, releases, ai, entries, exc,
                  fetched, writes, ref, versionVars >>

\* a release with a zip asset: start the loop over its assets
EnterRelease ==
  /\ pc = "releases"
  /\ ri <= Len(releases)
  /\ has_zip(releases[ri])
  /\ pc' = "assets"
  /\ ai' = 1
  /\ UNCHANGED << modrepo, run, old_releases, releases, ri, entries, exc,
                  fetched, writes, ref, versionVars >>

\* an asset that is no zip by name, or has no URL, is passed over
SkipAsset ==
  /\ pc = "assets"
  /\ ai <= Len(releases[ri].assets)
  /\ LET asset == releases[ri].assets[ai]
     IN  ~IsZip(asset.name) \/ asset.browser_download_url = ""
  /\ ai' = ai + 1
  /\ UNCHANGED << modrepo, pc, run, old_releases, releases, ri, entries, exc,
                  fetched, writes, ref, versionVars >>

\* requests.get raises, or raise_for_status does
FetchFails ==
  /\ pc = "assets"
  /\ ai <= Len(releases[ri].assets)
  /\ LET asset == releases[ri].assets[ai]
     IN  /\ IsZip(asset.name)
         /\ asset.browser_download_url # ""
         /\ fetched' = fetched \cup { asset.browser_download_url }
         /\ Raise("RequestException")

\* the asset is downloaded: inspect the archive, parse the descriptor,
\* append the record
HandleAsset ==
  /\ pc = "assets"
  /\ ai <= Len(releases[ri].assets)
  /\ LET asset   == releases[ri].assets[ai]
         url     == asset.browser_download_url
         archive == Hosted[url]
         zr      == read_about_xml_from_zip(archive)
         pr      == from_about_xml(zr.about)
     IN  /\ IsZip(asset.name)
         /\ url # ""
         /\ fetched' = fetched \cup { url }
         /\ IF zr.err # "" THEN Raise(zr.err)
            ELSE IF ~zr.found \/ zr.about.xml = "empty"
            THEN /\ ai' = ai + 1
                 /\ UNCHANGED << modrepo, pc, run, old_releases, releases, ri,
                                 entries, exc, writes, ref, versionVars >>
            ELSE IF pr.err # "" THEN Raise(pr.err)
            ELSE /\ entries' = Append(entries,
                                 [ pr.mm EXCEPT !.digest = sha256(archive),
                                                !.url = url ])
                 /\ ai' = ai + 1
                 /\ UNCHANGED << modrepo, pc, run, old_releases, releases, ri,
                                 exc, writes, ref, versionVars >>

\* the assets of the release are exhausted: next release
LeaveRelease ==
  /\ pc = "assets"
  /\ ai > Len(releases[ri].assets)
  /\ pc' = "releases"
  /\ ri' = ri + 1
  /\ UNCHANGED << modrepo, run, old_releases, releases, ai, entries, exc,
                  fetched, writes, ref, versionVars >>

\* after the loop: sort, build the document, write modrepo.xml
WriteCatalog ==
  /\ pc = "releases"
  /\ ri > Len(releases)
  /\ entries' = Sort(entries)
  /\ modrepo' = [ exists |-> TRUE, mods |-> ModRepo(entries') ]
  /\ writes' = writes + 1
  /\ pc' = "done"
  /\ UNCHANGED << run, old_releases, releases, ri, ai, exc, fetched, ref,
                  versionVars >>

Next ==
  \/ StartRun
  \/ ListingFails
  \/ SkipRelease
  \/ EnterRelease
  \/ SkipAsset
  \/ FetchFails
  \/ HandleAsset
  \/ LeaveRelease
  \/ WriteCatalog
  \/ EndRun

Spec == Init /\ [][Next]_vars

\* ------------------------------------------- parse_version on its own
InitV ==
  /\ InitMain
  /\ va \in VersionInputs
  /\ vb \in VersionInputs
  /\ vc \in VersionInputs
  /\ ka = NoKey /\ kb = NoKey /\ kc = NoKey
  /\ vpc = "input"

ParseInputs ==
  /\ vpc = "input"
  /\ ka' = parse_version(va)
  /\ kb' = parse_version(vb)
  /\ kc' = parse_version(vc)
  /\ vpc' = "parsed"
  /\ UNCHANGED << va, vb, vc, mainVars >>

NextV == ParseInputs

SpecV == InitV /\ [][NextV]_vars

\* =============================================================== claims
\* the fetch URLs of the archive-shaped assets of a listing
ArchiveShaped(name) ==
  /\ Len(name) >= 4
  /\ Lower(SubSeq(name, Len(name) - 3, Len(name))) = << ".", "z", "i", "p" >>

ListedArchives(listing) ==
  { a \in UNION { { listing[r].assets[i] : i \in 1..Len(listing[r].assets) } :
                    r \in 1..Len(listing) } :
      ArchiveShaped(a.name) /\ a.browser_download_url # "" }

\* the descriptor served for a URL, and whether it is a valid one
DescriptorAt(url) ==
  LET es == SelectSeq(Hosted[url].entries, LAMBDA e : EndsWith(e.path, AboutPath))
      ex == SelectSeq(es, LAMBDA e : e.path = AboutPath)
  IN  IF ex # << >> THEN ex[1].about ELSE es[1].about

HasDescriptor(url) ==
  /\ Hosted[url].zip
  /\ \E i \in 1..Len(Hosted[url].entries) :
       EndsWith(Hosted[url].entries[i].path, AboutPath)

ValidDescriptor(url) ==
  /\ HasDescriptor(url)
  /\ DescriptorAt(url).xml = "ok"
  /\ \A f \in { "ModID", "Version", "Name", "Author" } : DescriptorAt(url)[f] # << >>

CatalogUrls == { modrepo.mods[i].Url : i \in 1..Len(modrepo.mods) }

\* C1: handling one asset never aborts the run, and every other asset with a
\* valid descriptor still has its ModVersion in the written catalog: a run
\* fails only when the listing cannot be obtained, and a run that got its
\* listing ends with a record for each listed valid asset.
C1_PerAssetIsolation ==
  /\ pc = "failed" => exc = "CalledProcessError"
  /\ pc = "done" =>
       \A a \in ListedArchives(releases) :
         ValidDescriptor(a.browser_download_url) =>
           a.browser_download_url \in CatalogUrls

Sorted(es) == \A i \in 1..(Len(es) - 1) : ~SortLess(es[i + 1], es[i])

\* C2: modrepo.xml changes only by the one write of a run, which happens
\* after the loop over all releases has ended and with the sorted records; a
\* run that fails has written nothing and leaves the file as it was.
C2_NoPartialCatalog ==
  [][ /\ modrepo' # modrepo => writes' = writes + 1
      /\ writes' > writes =>
           /\ writes = 0
           /\ pc = "releases" /\ ri > Len(releases)
           /\ pc' = "done"
           /\ Sorted(entries')
           /\ modrepo'.mods = ModRepo(entries')
      /\ pc' = "failed" => writes' = 0 /\ modrepo' = modrepo ]_vars

\* C2 witness: a run that fails after it has collected records, with the
\* catalog of an earlier run on disk
C2_Witness ==
  /\ pc = "failed"
  /\ exc # "CalledProcessError"
  /\ entries # << >>
  /\ modrepo.exists
  /\ modrepo.mods # << >>
  /\ writes = 0

\* C3: an asset whose digest was resolved by an earlier run is never fetched
\* again: neither one whose record is in the catalog that run wrote, nor one
\* that the last completed run handled (with or without a descriptor).
C3_CacheHitSkipsFetch ==
  \A u \in fetched :
    /\ \A i \in 1..Len(old_releases) : old_releases[i].digest # sha256(Hosted[u])
    /\ ref.set =>
         \A a \in ListedArchives(ref.releases) :
           sha256(Hosted[a.browser_download_url]) # sha256(Hosted[u])

\* C4: a run with the same listing as the last completed run writes the same
\* catalog, whatever catalog it found on disk.
C4_IdempotentRebuild ==
  (pc = "done" /\ ref.set /\ ref.releases = releases) => modrepo.mods = ref.mods

\* C4 witness: a rebuild of the same listing over the catalog of the previous
\* run, with two records of equal sort key in it
C4_Witness ==
  /\ pc = "done"
  /\ ref.set
  /\ ref.releases = releases
  /\ old_releases # << >>
  /\ modrepo.mods = ref.mods
  /\ \E i \in 1..(Len(entries) - 1) :
       /\ ~SortLess(entries[i], entries[i + 1])
       /\ ~SortLess(entries[i + 1], entries[i])

Lt(x, y) == KeyLess(x.key, y.key)

SuffixCase ==
  /\ vpc = "parsed"
  /\ va = V1_0_0_alpha
  /\ vb = V1_0_0_beta
  /\ vc = V1_0_0

\* C5 as stated: parse("1.0.0-alpha") < parse("1.0.0-beta") < parse("1.0.0").
C5_SuffixTieBreak == SuffixCase => Lt(ka, kb) /\ Lt(kb, kc)

\* C5 as amended: parse("1.0.0") < parse("1.0.0-alpha") < parse("1.0.0-beta"):
\* the version without the pre-release part sorts first.
C5_SuffixSortsAfter == SuffixCase => Lt(kc, ka) /\ Lt(ka, kb)

\* C5 witness: the three strings parsed
C5_Witness == SuffixCase /\ Lt(kc, ka) /\ ka.key # kb.key

Count(b) == IF b THEN 1 ELSE 0

C7_RequiredFieldsNonEmpty ==
  /\ \A i \in 1..Len(entries) :
       /\ entries[i].id # << >> /\ entries[i].version # << >>
       /\ entries[i].name # << >> /\ entries[i].author # << >>
  /\ \A i \in 1..Len(modrepo.mods) :
       /\ modrepo.mods[i].ModID # << >> /\ modrepo.mods[i].Version # << >>
       /\ modrepo.mods[i].Name # << >> /\ modrepo.mods[i].Author # << >>

\* the distinct trimmed branch labels a descriptor declares
DeclaredBranches(url) ==
  { Strip(DescriptorAt(url).Branch[i]) : i \in 1..Len(DescriptorAt(url).Branch) }

\* C8 as stated: a ModVersion has one Branch child for each distinct declared
\* label, in sorted order without duplicates.
C8_FullBranchSet ==
  \A i \in 1..Len(modrepo.mods) :
    LET mv == modrepo.mods[i]
    IN  /\ { mv.Branch[j].Value : j \in 1..Len(mv.Branch) } = DeclaredBranches(mv.Url)
        /\ \A j \in 1..(Len(mv.Branch) - 1) :
             StrLess(mv.Branch[j].Value, mv.Branch[j + 1].Value)

\* C8 as amended: a ModVersion has exactly one Branch child; its Value is the
\* trimmed text of the last declared Branch, and empty when none is declared.
C8_LastBranchOnly ==
  \A i \in 1..Len(modrepo.mods) :
    LET mv == modrepo.mods[i]
        declared == DescriptorAt(mv.Url).Branch
    IN  /\ Len(mv.Branch) = 1
        /\ mv.Branch[1].Value =
             IF declared = << >> THEN << >> ELSE Strip(declared[Len(declared)])

\* C8 witness: a catalog with a record of two declared branches and a record
\* of none
C8_Witness ==
  /\ pc = "done"
  /\ \E i \in 1..Len(modrepo.mods) :
       /\ Cardinality(DeclaredBranches(modrepo.mods[i].Url)) = 2
       /\ modrepo.mods[i].Branch = << [ Value |-> << "m", "a", "i", "n" >> ] >>
  /\ \E i \in 1..Len(modrepo.mods) :
       /\ DeclaredBranches(modrepo.mods[i].Url) = {}
       /\ modrepo.mods[i].Branch = << [ Value |-> << >> ] >>

\* list < list for the Branch children of two ModVersion elements
BranchesLess(x, y) ==
  LET n == IF Len(x) < Len(y) THEN Len(x) ELSE Len(y)
      d == { i \in 1..n : x[i] # y[i] }
  IN  IF d = {} THEN Len(x) < Len(y)
      ELSE LET k == CHOOSE i \in d : \A j \in d : i <= j
           IN  StrLess(x[k].Value, y[k].Value)

KeyOfVersion(r) == parse_version(r.Version).key

\* the composite key (id, version key, branches) of r1 is below that of r2
CompositeLess(r1, r2) ==
  IF r1.ModID # r2.ModID THEN StrLess(r1.ModID, r2.ModID)
  ELSE IF KeyOfVersion(r1) # KeyOfVersion(r2)
       THEN KeyLess(KeyOfVersion(r1), KeyOfVersion(r2))
  ELSE BranchesLess(r1.Branch, r2.Branch)

\* C9: consecutive ModVersion entries of the catalog are in ascending order
\* of (id, version key, branches).
C9_CatalogOrder ==
  \A i \in 1..(Len(modrepo.mods) - 1) :
    ~CompositeLess(modrepo.mods[i + 1], modrepo.mods[i])

\* C9 witness: 1.10.0 is listed before 1.9.0 and written behind it
C9_Witness ==
  /\ pc = "done"
  /\ Len(releases) = 2
  /\ releases[1].tag_name = "v1"
  /\ releases[2].tag_name = "v2"
  /\ \E i \in 1..(Len(modrepo.mods) - 1) :
       /\ modrepo.mods[i].Version = V1_9_0
       /\ modrepo.mods[i + 1].Version = V1_10_0
       /\ modrepo.mods[i].ModID = modrepo.mods[i + 1].ModID

\* C10: every ModVersion of the catalog a run has written comes from an
\* archive-shaped asset with a fetch URL of that run's listing.
C10_NoStaleRecords ==
  pc = "done" =>
    \A i \in 1..Len(modrepo.mods) :
      \E a \in ListedArchives(releases) :
        a.browser_download_url = modrepo.mods[i].Url

\* C10 witness: the previous catalog had a record that is no longer listed,
\* and the listing has a release without an archive
C10_Witness ==
  /\ pc = "done"
  /\ modrepo.mods # << >>
  /\ \E i \in 1..Len(old_releases) :
       \A a \in ListedArchives(releases) :
         a.browser_download_url # old_releases[i].url
  /\ \E r \in 1..Len(releases) :
       \A i \in 1..Len(releases[r].assets) : ~ArchiveShaped(releases[r].assets[i].name)

====
